---- MODULE Spec2Model ----
(***************************************************************************)
(* omni-ai server: the auth middleware (identity resolution and free-usage *)
(* normalisation), the six generation controllers of aiController.js with  *)
(* their plan / free-usage gate, the creations table and the Clerk         *)
(* privateMetadata.free_usage counter.                                     *)
(*                                                                         *)
(* Every `await` of the source is a suspension point, so every handler is  *)
(* cut at its awaits: one action per awaited call, carrying the synchronous*)
(* code that follows it up to the next await.                              *)
(***************************************************************************)
EXTENDS Integers, Sequences, FiniteSets, TLC

VARIABLES
    premium,     \* premium[u]: the identity provider's answer to has({plan: 'premium'})
    free_usage,  \* free_usage[u]: privateMetadata.free_usage of user u
    creations,   \* the rows of the creations table, in insertion order
    req,         \* req[r]: the request in slot r, with the locals of its handlers
    metered      \* metered[u]: the metered generations answered with success to u
                 \* while on the free plan (their number and the sum of their costs)

vars == <<premium, free_usage, creations, req, metered>>

----------------------------------------------------------------------------
(* Bounds of the model *)

\* largest number of rows of the creations table
MaxCreations == 1
\* largest free_usage value an initial state stores
MaxUsage == 12
\* largest number of rows of the creations table in the quota scenario
MaxGenerations == 11
\* largest number of rows of the creations table in the like scenarios
MaxRows == 2
\* largest number of requests served in the concurrent like scenario
MaxCalls == 3
\* largest number of requests served in the concurrent fresh-user scenario
MaxMeterCalls == 5

----------------------------------------------------------------------------
(* Program constants *)

\* `free_usage >= 10`
FreeLimit == 10
\* resume.size > 5 * 1024 * 1024
ResumeSizeLimit == 5 * 1024 * 1024

Users == {"u1", "u2"}
\* the user of the scenarios that follow a single user
QuotaUser == "u1"

\* request slots; the sequential specifications use slot 1 only
Reqs == {1, 2}
SeqReqs == {1}

MeteredOps == {"generateArticle", "generateBlogTitle", "resumeReview"}
PremiumOps == {"generateImage", "removeImageBackground", "removeImageObject"}
GenOps == MeteredOps \cup PremiumOps

LimitMsg == "Free usage limit reached. Upgrade to premium for more requests."
PremiumMsg == "This feature is only available for premium users."
SizeMsg == "Resume file size exceeds 5MB limit."

\* privateMetadata.free_usage: <<>> when the key is absent, <<n>> when it holds n
Undef == <<>>
Val(n) == <<n>>

\* JavaScript truthiness of privateMetadata.free_usage: undefined and 0 are falsy
Truthy(m) == m # Undef /\ m[1] # 0

\* mutant: a missing publish defaults to true
PublishOrFalse_defaultTrue(publish) == publish # "false"

\* `publish ?? false` of generateImage; body.publish is "true", "false" or "undefined"
PublishOrFalse(publish) == IF publish = "undefined" THEN FALSE ELSE publish = "true"

----------------------------------------------------------------------------
(* The gate of each controller *)

\* mutants of the gate: the comparison off by one either way
LimitReached_gt(plan, fu) == plan # "premium" /\ fu > FreeLimit
LimitReached_early(plan, fu) == plan # "premium" /\ fu >= FreeLimit - 1

\* `plan !== 'premium' && free_usage >= 10` (generateArticle, generateBlogTitle, resumeReview)
LimitReached(plan, fu) == plan # "premium" /\ fu >= FreeLimit

\* mutant: the comparison with the plan inverted
PremiumRequired_inverted(plan) == plan = "premium"

\* `plan !== 'premium'` (generateImage, removeImageBackground, removeImageObject)
PremiumRequired(plan) == plan # "premium"

\* mutant: the image controllers gated by the counter, like the metered ones
GateDenies_quotaOnly(op, plan, fu) == LimitReached(plan, fu)

\* TRUE when the controller of op returns at its gate
GateDenies(op, plan, fu) ==
    IF op \in MeteredOps THEN LimitReached(plan, fu) ELSE PremiumRequired(plan)

\* the message of the gate's early return, per controller
GateMessage(op) ==
    CASE op = "generateArticle" -> LimitMsg
      [] op = "generateBlogTitle" -> LimitMsg
      [] op = "resumeReview" -> PremiumMsg
      [] op = "generateImage" -> PremiumMsg
      [] op = "removeImageBackground" -> PremiumMsg
      [] op = "removeImageObject" -> PremiumMsg

\* free_usage: free_usage + 1 (article, blog title), free_usage + 3 (resume review)
Cost(op) ==
    CASE op = "generateArticle" -> 1
      [] op = "generateBlogTitle" -> 1
      [] op = "resumeReview" -> 3
      [] OTHER -> 0

\* mutant: the image tools record a type of their own
CreationType_perTool(op) ==
    CASE op = "generateArticle" -> "article"
      [] op = "generateBlogTitle" -> "blog-title"
      [] op = "resumeReview" -> "resume-review"
      [] op = "generateImage" -> "image"
      [] OTHER -> "image-edit"

\* the type column of the INSERT of each controller
CreationType(op) ==
    CASE op = "generateArticle" -> "article"
      [] op = "generateBlogTitle" -> "blog-title"
      [] op = "resumeReview" -> "resume-review"
      [] OTHER -> "image"

\* the awaited (or throwing) provider calls of each controller, in order
ProviderCalls(op) ==
    CASE op = "generateArticle" -> <<"AI.chat.completions.create">>
      [] op = "generateBlogTitle" -> <<"AI.chat.completions.create">>
      [] op = "generateImage" -> <<"axios.post", "cloudinary.uploader.upload">>
      [] op = "removeImageBackground" -> <<"cloudinary.uploader.upload">>
      [] op = "removeImageObject" -> <<"cloudinary.uploader.upload">>
      [] op = "resumeReview" -> <<"pdf", "AI.chat.completions.create">>

----------------------------------------------------------------------------
(* Requests *)

NoResponse == [success |-> FALSE, field |-> "none", text |-> ""]

\* a request slot: the request's inputs, the locals of auth and of the controller,
\* the response, and what the request has done so far
IdleReq ==
    [pc |-> "idle", userId |-> "none", op |-> "none",
     publish |-> "undefined", size |-> 0,
     hasPremiumPlan |-> FALSE, plan |-> "none", free_usage |-> 0,
     step |-> 0, response |-> NoResponse,
     gate |-> "none",        \* the decision of the controller's gate
     thrown |-> "none",      \* the call that threw, if one did
     calls |-> 0,            \* provider calls made
     inserted |-> FALSE,     \* the INSERT of this request succeeded
     authWrote |-> FALSE,    \* auth wrote free_usage
     ctrlWrote |-> Undef,    \* the free_usage value the controller wrote
     usage0 |-> Undef,       \* the stored free_usage when the request arrived
     usage1 |-> Undef,       \* the stored free_usage when the controller started
     creations0 |-> <<>>,    \* the creations table when the request arrived
     prior |-> 0,            \* metered[userId].n when the request arrived
     id |-> 0,               \* toggleLikeCreation: req.body.id
     currentLikes |-> <<>>,  \* toggleLikeCreation: creation.likes as read
     updatedLikes |-> <<>>,  \* toggleLikeCreation: the array to write
     message |-> "",         \* toggleLikeCreation: the message to answer with
     likes0 |-> <<>>,        \* the likes of row id when the request arrived
     prev |-> [valid |-> FALSE, likes0 |-> <<>>, text |-> ""],
                             \* the slot's previous request, when it was a
                             \* successful toggle of the same row by the same user
     nth |-> 0,              \* the request's number in its slot, where counted
     listed |-> <<>>]        \* the rows a listing has answered with

\* mutant: the response is built and never sent, the request stays where it is
Respond_pending(rec, success, field, text) ==
    [rec EXCEPT !.response = [success |-> success, field |-> field, text |-> text]]

\* res.json(...): the response ends the request
Respond(rec, success, field, text) ==
    [rec EXCEPT !.pc = "done",
                !.response = [success |-> success, field |-> field, text |-> text]]

\* mutant: the catch of auth calls next() instead of answering
Catch_next(rec, call, field) ==
    IF field = "error"
    THEN [rec EXCEPT !.thrown = call, !.pc = "controller"]
    ELSE Respond([rec EXCEPT !.thrown = call], FALSE, field, call)

\* catch (error) { res.json({success: false, <field>: error.message}) }
Catch(rec, call, field) ==
    Respond([rec EXCEPT !.thrown = call], FALSE, field, call)

NoMetered == [n |-> 0, cost |-> 0]

Init ==
    /\ premium \in [Users -> BOOLEAN]
    /\ free_usage \in [Users -> {Undef} \cup {Val(n) : n \in 0..MaxUsage}]
    /\ creations = <<>>
    /\ req = [r \in Reqs |-> IdleReq]
    /\ metered = [u \in Users |-> NoMetered]

\* a request reaches the auth middleware of its route
Arrive(r, u, op, publish, size) ==
    /\ req[r].pc \in {"idle", "done"}
    /\ req' = [req EXCEPT ![r] =
                  [IdleReq EXCEPT !.pc = "auth", !.userId = u, !.op = op,
                                  !.publish = publish, !.size = size,
                                  !.usage0 = free_usage[u],
                                  !.creations0 = creations,
                                  !.prior = metered[u].n]]
    /\ UNCHANGED <<premium, free_usage, creations, metered>>

----------------------------------------------------------------------------
(* middlewares/auth.js *)

\* mutants of the branch: the plan not looked at; the negation dropped; the
\* counter written to 0 whatever is stored
KeepsStoredUsage_never(hasPremiumPlan, m) == FALSE
KeepsStoredUsage_anyPlan(hasPremiumPlan, m) == Truthy(m)
KeepsStoredUsage_noNeg(hasPremiumPlan, m) == hasPremiumPlan /\ Truthy(m)

\* the branch of auth that keeps the stored counter: no premium plan and a
\* truthy privateMetadata.free_usage
KeepsStoredUsage(hasPremiumPlan, m) == ~hasPremiumPlan /\ Truthy(m)

\* req.plan = hasPremiumPlan ? 'premium' : 'free'
PlanOf(hasPremiumPlan) == IF hasPremiumPlan THEN "premium" ELSE "free"

\* await req.auth(); await has({plan: 'premium'}); a throw is caught and answered
auth_has(r) ==
    /\ req[r].pc = "auth"
    /\ \E ok \in BOOLEAN :
          req' = [req EXCEPT ![r] =
                    IF ok
                    THEN [@ EXCEPT !.pc = "getUser",
                                   !.hasPremiumPlan = premium[req[r].userId]]
                    ELSE Catch(@, "req.auth", "error")]
    /\ UNCHANGED <<premium, free_usage, creations, metered>>

\* await clerkClient.users.getUser(userId), then the branch on the stored counter:
\* either req.free_usage is the stored value and next() runs, or the counter is
\* about to be overwritten with 0
auth_getUser(r) ==
    /\ req[r].pc = "getUser"
    /\ \E ok \in BOOLEAN :
          LET m == free_usage[req[r].userId] IN
          req' = [req EXCEPT ![r] =
                    IF ~ok
                    THEN Catch(@, "getUser", "error")
                    ELSE IF KeepsStoredUsage(req[r].hasPremiumPlan, m)
                    THEN [@ EXCEPT !.free_usage = m[1],
                                   !.plan = PlanOf(req[r].hasPremiumPlan),
                                   !.usage1 = m,
                                   !.pc = "controller"]
                    ELSE [@ EXCEPT !.pc = "updateUserMetadata"]]
    /\ UNCHANGED <<premium, free_usage, creations, metered>>

\* await clerkClient.users.updateUserMetadata(userId, {free_usage: 0});
\* req.free_usage = 0; req.plan; next()
auth_updateUserMetadata(r) ==
    /\ req[r].pc = "updateUserMetadata"
    /\ \E ok \in BOOLEAN :
          IF ok
          THEN /\ free_usage' = [free_usage EXCEPT ![req[r].userId] = Val(0)]
               /\ req' = [req EXCEPT ![r] =
                            [@ EXCEPT !.free_usage = 0,
                                      !.plan = PlanOf(req[r].hasPremiumPlan),
                                      !.authWrote = TRUE,
                                      !.usage1 = Val(0),
                                      !.pc = "controller"]]
          ELSE /\ free_usage' = free_usage
               /\ req' = [req EXCEPT ![r] = Catch(@, "updateUserMetadata", "error")]
    /\ UNCHANGED <<premium, creations, metered>>

----------------------------------------------------------------------------
(* controllers/aiController.js *)

\* mutant: res.json without `return`, the controller goes on after a denial
Gate_noReturn(rec) ==
    [rec EXCEPT !.gate = IF GateDenies(rec.op, rec.plan, rec.free_usage)
                         THEN "deny" ELSE "allow",
                !.pc = "invoke", !.step = 1]

\* the gate at the head of a controller: the early return, or the controller
\* goes on to its first provider call
Gate(rec) ==
    IF GateDenies(rec.op, rec.plan, rec.free_usage)
    THEN Respond([rec EXCEPT !.gate = "deny"], FALSE, "message", GateMessage(rec.op))
    ELSE [rec EXCEPT !.gate = "allow", !.pc = "invoke", !.step = 1]

generateArticle(r) ==
    /\ req[r].pc = "controller"
    /\ req[r].op = "generateArticle"
    /\ req' = [req EXCEPT ![r] = Gate(@)]
    /\ UNCHANGED <<premium, free_usage, creations, metered>>

generateBlogTitle(r) ==
    /\ req[r].pc = "controller"
    /\ req[r].op = "generateBlogTitle"
    /\ req' = [req EXCEPT ![r] = Gate(@)]
    /\ UNCHANGED <<premium, free_usage, creations, metered>>

generateImage(r) ==
    /\ req[r].pc = "controller"
    /\ req[r].op = "generateImage"
    /\ req' = [req EXCEPT ![r] = Gate(@)]
    /\ UNCHANGED <<premium, free_usage, creations, metered>>

removeImageBackground(r) ==
    /\ req[r].pc = "controller"
    /\ req[r].op = "removeImageBackground"
    /\ req' = [req EXCEPT ![r] = Gate(@)]
    /\ UNCHANGED <<premium, free_usage, creations, metered>>

removeImageObject(r) ==
    /\ req[r].pc = "controller"
    /\ req[r].op = "removeImageObject"
    /\ req' = [req EXCEPT ![r] = Gate(@)]
    /\ UNCHANGED <<premium, free_usage, creations, metered>>

\* mutant: the size of the file is not looked at
TooLarge_never(size) == FALSE

\* resume.size > 5 * 1024 * 1024
TooLarge(size) == size > ResumeSizeLimit

\* resumeReview: the gate, then the 5 MB check on the uploaded file
resumeReview(r) ==
    /\ req[r].pc = "controller"
    /\ req[r].op = "resumeReview"
    /\ req' = [req EXCEPT ![r] =
                 IF Gate(@).gate = "allow" /\ TooLarge(@.size)
                 THEN Respond([@ EXCEPT !.gate = "allow"], FALSE, "message", SizeMsg)
                 ELSE Gate(@)]
    /\ UNCHANGED <<premium, free_usage, creations, metered>>

\* mutant: a throw of a provider call is swallowed and the controller goes on
AfterInvoke_swallow(rec, ok) ==
    LET seen == IF ok THEN rec
                ELSE [rec EXCEPT !.thrown = ProviderCalls(rec.op)[rec.step]] IN
    IF rec.step < Len(ProviderCalls(rec.op))
    THEN [seen EXCEPT !.step = @ + 1]
    ELSE [seen EXCEPT !.pc = "insert"]

\* what a controller does when its provider call number rec.step returns (ok) or
\* throws: the catch answers, or the next call is made, or the INSERT is issued
AfterInvoke(rec, ok) ==
    IF ~ok
    THEN Catch(rec, ProviderCalls(rec.op)[rec.step], "message")
    ELSE IF rec.step < Len(ProviderCalls(rec.op))
    THEN [rec EXCEPT !.step = @ + 1]
    ELSE [rec EXCEPT !.pc = "insert"]

\* a provider call of the controller returns or throws
Invoke(r) ==
    /\ req[r].pc = "invoke"
    /\ \E ok \in BOOLEAN :
          req' = [req EXCEPT ![r] = AfterInvoke([@ EXCEPT !.calls = @ + 1], ok)]
    /\ UNCHANGED <<premium, free_usage, creations, metered>>

\* the row a controller inserts
NewCreation(rec) ==
    [id |-> Len(creations) + 1,
     user_id |-> rec.userId,
     prompt |-> "prompt",
     content |-> "content",
     type |-> CreationType(rec.op),
     publish |-> IF rec.op = "generateImage"
                 THEN PublishOrFalse(rec.publish) ELSE FALSE,
     likes |-> <<>>]

\* mutant: the usage write not guarded by the plan
CommitsUsage_anyPlan(op, plan) == op \in MeteredOps

\* `if (plan !== 'premium')` around the usage write of the metered controllers;
\* the image controllers have no usage write
CommitsUsage(op, plan) == op \in MeteredOps /\ plan # "premium"

\* mutant: a failed INSERT is only logged, the controller goes on as after a
\* successful one
Insert_warn(r) ==
    /\ req[r].pc = "insert"
    /\ \E ok \in BOOLEAN :
          /\ creations' = IF ok THEN Append(creations, NewCreation(req[r]))
                                ELSE creations
          /\ req' = [req EXCEPT ![r] =
                       LET rec == IF ok THEN [@ EXCEPT !.inserted = TRUE]
                                        ELSE [@ EXCEPT !.thrown = "sql"] IN
                       IF CommitsUsage(req[r].op, req[r].plan)
                       THEN [rec EXCEPT !.pc = "commit"]
                       ELSE Respond(rec, TRUE, "content", "content")]
    /\ UNCHANGED <<premium, free_usage, metered>>

\* mutant: a failed INSERT sends the controller back to its provider calls
Insert_retry(r) ==
    /\ req[r].pc = "insert"
    /\ \E ok \in BOOLEAN :
          IF ok
          THEN /\ creations' = Append(creations, NewCreation(req[r]))
               /\ req' = [req EXCEPT ![r] =
                            IF CommitsUsage(req[r].op, req[r].plan)
                            THEN [@ EXCEPT !.inserted = TRUE, !.pc = "commit"]
                            ELSE Respond([@ EXCEPT !.inserted = TRUE],
                                         TRUE, "content", "content")]
          ELSE /\ creations' = creations
               /\ req' = [req EXCEPT ![r] =
                            [@ EXCEPT !.thrown = "sql", !.pc = "invoke", !.step = 1]]
    /\ UNCHANGED <<premium, free_usage, metered>>

\* await sql`INSERT INTO creations ...`; then either the usage write is issued or
\* the controller answers with the content
Insert(r) ==
    /\ req[r].pc = "insert"
    /\ \E ok \in BOOLEAN :
          IF ok
          THEN /\ creations' = Append(creations, NewCreation(req[r]))
               /\ req' = [req EXCEPT ![r] =
                            IF CommitsUsage(req[r].op, req[r].plan)
                            THEN [@ EXCEPT !.inserted = TRUE, !.pc = "commit"]
                            ELSE Respond([@ EXCEPT !.inserted = TRUE],
                                         TRUE, "content", "content")]
          ELSE /\ creations' = creations
               /\ req' = [req EXCEPT ![r] = Catch(@, "sql", "message")]
    /\ UNCHANGED <<premium, free_usage, metered>>

\* mutant: every metered controller adds 1
CommittedUsage_one(op, fu) == fu + 1
\* mutant: the cost added to the counter as stored at the time of the write
CommittedUsage_stored(op, fu) == free_usage[QuotaUser][1] + Cost(op)

\* the value the controller writes: free_usage + 1 or free_usage + 3
CommittedUsage(op, fu) == fu + Cost(op)

\* await clerkClient.users.updateUserMetadata(userId, {free_usage: free_usage + cost});
\* res.json({success: true, content})
Commit(r) ==
    /\ req[r].pc = "commit"
    /\ \E ok \in BOOLEAN :
          LET u == req[r].userId
              v == CommittedUsage(req[r].op, req[r].free_usage) IN
          IF ok
          THEN /\ free_usage' = [free_usage EXCEPT ![u] = Val(v)]
               /\ req' = [req EXCEPT ![r] =
                            Respond([@ EXCEPT !.ctrlWrote = Val(v)],
                                    TRUE, "content", "content")]
               /\ metered' = [metered EXCEPT ![u] =
                                [n |-> @.n + 1, cost |-> @.cost + Cost(req[r].op)]]
          ELSE /\ free_usage' = free_usage
               /\ req' = [req EXCEPT ![r] = Catch(@, "updateUserMetadata", "message")]
               /\ metered' = metered
    /\ UNCHANGED <<premium, creations>>

----------------------------------------------------------------------------
(* Spec: requests one after another, from any stored counter and plan *)

Publishes == {"true", "false", "undefined"}
Sizes == {ResumeSizeLimit, ResumeSizeLimit + 1}

\* a generation request arrives while the table has room for its row
ArriveGen(r) ==
    /\ Len(creations) < MaxCreations
    /\ \E u \in Users, op \in GenOps :
          \E publish \in (IF op = "generateImage" THEN Publishes ELSE {"undefined"}),
             size \in (IF op = "resumeReview" THEN Sizes ELSE {0}) :
               Arrive(r, u, op, publish, size)

Next ==
    \/ \E r \in SeqReqs : ArriveGen(r)
    \/ \E r \in SeqReqs : auth_has(r)
    \/ \E r \in SeqReqs : auth_getUser(r)
    \/ \E r \in SeqReqs : auth_updateUserMetadata(r)
    \/ \E r \in SeqReqs : generateArticle(r)
    \/ \E r \in SeqReqs : generateBlogTitle(r)
    \/ \E r \in SeqReqs : generateImage(r)
    \/ \E r \in SeqReqs : removeImageBackground(r)
    \/ \E r \in SeqReqs : removeImageObject(r)
    \/ \E r \in SeqReqs : resumeReview(r)
    \/ \E r \in SeqReqs : Invoke(r)
    \/ \E r \in SeqReqs : Insert(r)
    \/ \E r \in SeqReqs : Commit(r)

Spec == Init /\ [][Next]_vars

----------------------------------------------------------------------------
(* SpecQuota: one fresh user on the free plan issues cost-1 generations one  *)
(* after another                                                            *)

InitQuota ==
    /\ premium = [u \in Users |-> FALSE]
    /\ free_usage = [u \in Users |-> Undef]
    /\ creations = <<>>
    /\ req = [r \in Reqs |-> IdleReq]
    /\ metered = [u \in Users |-> NoMetered]

ArriveQuota(r) ==
    /\ Len(creations) < MaxGenerations
    /\ \E op \in {"generateArticle", "generateBlogTitle"} :
          Arrive(r, QuotaUser, op, "undefined", 0)

NextQuota ==
    \/ \E r \in SeqReqs : ArriveQuota(r)
    \/ \E r \in SeqReqs : auth_has(r)
    \/ \E r \in SeqReqs : auth_getUser(r)
    \/ \E r \in SeqReqs : auth_updateUserMetadata(r)
    \/ \E r \in SeqReqs : generateArticle(r)
    \/ \E r \in SeqReqs : generateBlogTitle(r)
    \/ \E r \in SeqReqs : Invoke(r)
    \/ \E r \in SeqReqs : Insert(r)
    \/ \E r \in SeqReqs : Commit(r)

SpecQuota == InitQuota /\ [][NextQuota]_vars

TypeOK ==
    /\ premium \in [Users -> BOOLEAN]
    /\ \A u \in Users : Len(free_usage[u]) <= 1
    /\ Len(creations) <= MaxGenerations

----------------------------------------------------------------------------
(* controllers/userController.js: toggleLikeCreation *)

\* currentLikes.includes(userIdStr)
Includes(likes, u) == \E i \in 1..Len(likes) : likes[i] = u

\* mutants of the new array: the user appended without the includes test; the
\* filter keeping the user instead of the others; the removal left out
ToggleLikes_appendAlways(currentLikes, userIdStr) == Append(currentLikes, userIdStr)
ToggleLikes_filterKeeps(currentLikes, userIdStr) ==
    IF Includes(currentLikes, userIdStr)
    THEN SelectSeq(currentLikes, LAMBDA user : user = userIdStr)
    ELSE Append(currentLikes, userIdStr)
ToggleLikes_noRemove(currentLikes, userIdStr) ==
    IF Includes(currentLikes, userIdStr)
    THEN currentLikes
    ELSE Append(currentLikes, userIdStr)

\* updatedLikes: currentLikes.filter(user => user !== userIdStr) or
\* [...currentLikes, userIdStr]
ToggleLikes(currentLikes, userIdStr) ==
    IF Includes(currentLikes, userIdStr)
    THEN SelectSeq(currentLikes, LAMBDA user : user # userIdStr)
    ELSE Append(currentLikes, userIdStr)

LikedMsg == "Creation liked"
DislikedMsg == "Creation disliked"
NotFoundMsg == "Creation not found"

ToggleMessage(currentLikes, userIdStr) ==
    IF Includes(currentLikes, userIdStr) THEN DislikedMsg ELSE LikedMsg

\* updatedLikes.join(','), as a sequence of tokens
RECURSIVE Join(_)
Join(likes) ==
    IF Len(likes) = 0 THEN <<>>
    ELSE IF Len(likes) = 1 THEN <<likes[1]>>
    ELSE <<likes[1], ",">> \o Join(Tail(likes))

\* `{${updatedLikes.join(',')}}`
FormatArray(likes) == <<"{">> \o Join(likes) \o <<"}">>

\* ${formattedArray}::text[]: the elements between the braces, split at the commas
ParseArray(tokens) ==
    SelectSeq(SubSeq(tokens, 2, Len(tokens) - 1), LAMBDA t : t # ",")

\* SELECT * FROM creations WHERE id = ${id}: TRUE when a row comes back
Found(id) == id \in 1..Len(creations)

\* a toggle-like request reaches the auth middleware of its route; nth is the
\* number the scenario gives the request
ArriveToggle(r, u, id, nth) ==
    /\ req[r].pc \in {"idle", "done"}
    /\ req' = [req EXCEPT ![r] =
                  [IdleReq EXCEPT
                      !.pc = "auth", !.userId = u, !.op = "toggleLikeCreation",
                      !.id = id,
                      !.usage0 = free_usage[u],
                      !.creations0 = creations,
                      !.likes0 = IF Found(id) THEN creations[id].likes ELSE <<>>,
                      !.prev = IF /\ req[r].pc = "done"
                                  /\ req[r].op = "toggleLikeCreation"
                                  /\ req[r].response.success
                                  /\ req[r].userId = u
                                  /\ req[r].id = id
                               THEN [valid |-> TRUE, likes0 |-> req[r].likes0,
                                     text |-> req[r].response.text]
                               ELSE IdleReq.prev,
                      !.nth = nth]]
    /\ UNCHANGED <<premium, free_usage, creations, metered>>

\* mutant: the quota gate of the metered controllers in front of the toggle
toggleLikeCreation_gated(r) ==
    /\ req[r].pc = "controller"
    /\ req[r].op = "toggleLikeCreation"
    /\ \E ok \in BOOLEAN :
          req' = [req EXCEPT ![r] =
                    IF LimitReached(req[r].plan, req[r].free_usage)
                    THEN Respond([@ EXCEPT !.gate = "deny"], FALSE, "message", LimitMsg)
                    ELSE IF ~ok
                    THEN Catch(@, "sql", "message")
                    ELSE IF ~Found(req[r].id)
                    THEN Respond(@, FALSE, "message", NotFoundMsg)
                    ELSE LET currentLikes == creations[req[r].id].likes
                             userIdStr == req[r].userId IN
                         [@ EXCEPT !.currentLikes = currentLikes,
                                   !.updatedLikes = ToggleLikes(currentLikes, userIdStr),
                                   !.message = ToggleMessage(currentLikes, userIdStr),
                                   !.pc = "update"]]
    /\ UNCHANGED <<premium, free_usage, creations, metered>>

\* mutant: the row that is not there is answered as a like
toggleLikeCreation_notFoundLiked(r) ==
    /\ req[r].pc = "controller"
    /\ req[r].op = "toggleLikeCreation"
    /\ \E ok \in BOOLEAN :
          req' = [req EXCEPT ![r] =
                    IF ~ok
                    THEN Catch(@, "sql", "message")
                    ELSE IF ~Found(req[r].id)
                    THEN Respond(@, TRUE, "message", LikedMsg)
                    ELSE LET currentLikes == creations[req[r].id].likes
                             userIdStr == req[r].userId IN
                         [@ EXCEPT !.currentLikes = currentLikes,
                                   !.updatedLikes = ToggleLikes(currentLikes, userIdStr),
                                   !.message = ToggleMessage(currentLikes, userIdStr),
                                   !.pc = "update"]]
    /\ UNCHANGED <<premium, free_usage, creations, metered>>

\* await sql`SELECT ...`; the not-found answer, or the new array and the message
\* are computed and the UPDATE is issued
toggleLikeCreation(r) ==
    /\ req[r].pc = "controller"
    /\ req[r].op = "toggleLikeCreation"
    /\ \E ok \in BOOLEAN :
          req' = [req EXCEPT ![r] =
                    IF ~ok
                    THEN Catch(@, "sql", "message")
                    ELSE IF ~Found(req[r].id)
                    THEN Respond(@, FALSE, "message", NotFoundMsg)
                    ELSE LET currentLikes == creations[req[r].id].likes
                             userIdStr == req[r].userId IN
                         [@ EXCEPT !.currentLikes = currentLikes,
                                   !.updatedLikes = ToggleLikes(currentLikes, userIdStr),
                                   !.message = ToggleMessage(currentLikes, userIdStr),
                                   !.pc = "update"]]
    /\ UNCHANGED <<premium, free_usage, creations, metered>>

\* mutant: the UPDATE without its WHERE clause
toggleLike_update_noWhere(r) ==
    /\ req[r].pc = "update"
    /\ \E ok \in BOOLEAN :
          IF ok
          THEN /\ creations' = [i \in 1..Len(creations) |->
                                   [creations[i] EXCEPT !.likes =
                                       ParseArray(FormatArray(req[r].updatedLikes))]]
               /\ req' = [req EXCEPT ![r] =
                            Respond(@, TRUE, "message", req[r].message)]
          ELSE /\ creations' = creations
               /\ req' = [req EXCEPT ![r] = Catch(@, "sql", "message")]
    /\ UNCHANGED <<premium, free_usage, metered>>

\* mutant: the UPDATE also takes the row out of the feed
toggleLike_update_unpublish(r) ==
    /\ req[r].pc = "update"
    /\ \E ok \in BOOLEAN :
          IF ok
          THEN /\ creations' = [creations EXCEPT
                                   ![req[r].id].likes =
                                       ParseArray(FormatArray(req[r].updatedLikes)),
                                   ![req[r].id].publish = FALSE]
               /\ req' = [req EXCEPT ![r] =
                            Respond(@, TRUE, "message", req[r].message)]
          ELSE /\ creations' = creations
               /\ req' = [req EXCEPT ![r] = Catch(@, "sql", "message")]
    /\ UNCHANGED <<premium, free_usage, metered>>

\* await sql`UPDATE creations SET likes = ${formattedArray}::text[] WHERE id = ${id}`;
\* res.json({success: true, message})
toggleLike_update(r) ==
    /\ req[r].pc = "update"
    /\ \E ok \in BOOLEAN :
          IF ok
          THEN /\ creations' = [creations EXCEPT ![req[r].id].likes =
                                   ParseArray(FormatArray(req[r].updatedLikes))]
               /\ req' = [req EXCEPT ![r] =
                            Respond(@, TRUE, "message", req[r].message)]
          ELSE /\ creations' = creations
               /\ req' = [req EXCEPT ![r] = Catch(@, "sql", "message")]
    /\ UNCHANGED <<premium, free_usage, metered>>

----------------------------------------------------------------------------
(* controllers/userController.js: getUserCreations, getPublishedCreations *)

\* ORDER BY created_at DESC: the rows in the reverse of the order of insertion
Reverse(rows) == [i \in 1..Len(rows) |-> rows[Len(rows) + 1 - i]]

\* SELECT * FROM creations WHERE user_id = ${userId} ORDER BY created_at DESC
UserRows(userId) == Reverse(SelectSeq(creations, LAMBDA c : c.user_id = userId))

\* mutant: the WHERE clause left out
PublishedRows_all == Reverse(creations)

\* SELECT * FROM creations WHERE publish = true ORDER BY created_at DESC
PublishedRows == Reverse(SelectSeq(creations, LAMBDA c : c.publish))

\* await sql`SELECT ...`; res.json({success: true, creations})
getUserCreations(r) ==
    /\ req[r].pc = "controller"
    /\ req[r].op = "getUserCreations"
    /\ \E ok \in BOOLEAN :
          req' = [req EXCEPT ![r] =
                    IF ok
                    THEN Respond([@ EXCEPT !.listed = UserRows(req[r].userId)],
                                 TRUE, "creations", "creations")
                    ELSE Catch(@, "sql", "message")]
    /\ UNCHANGED <<premium, free_usage, creations, metered>>

\* await sql`SELECT ...`; res.json({success: true, creations})
getPublishedCreations(r) ==
    /\ req[r].pc = "controller"
    /\ req[r].op = "getPublishedCreations"
    /\ \E ok \in BOOLEAN :
          req' = [req EXCEPT ![r] =
                    IF ok
                    THEN Respond([@ EXCEPT !.listed = PublishedRows],
                                 TRUE, "creations", "creations")
                    ELSE Catch(@, "sql", "message")]
    /\ UNCHANGED <<premium, free_usage, creations, metered>>

----------------------------------------------------------------------------
(* SpecLike: toggle-like requests one after another on a table of rows the  *)
(* generation controllers have inserted                                     *)

\* what generateImage inserts: an image, published or not
RowKinds ==
    {[type |-> CreationType("generateImage"), publish |-> PublishOrFalse(p)] :
        p \in Publishes}

\* the tables of at most MaxRows rows one user has inserted, nobody having
\* liked anything yet
LikeTables ==
    UNION { { [i \in 1..n |->
                 [id |-> i, user_id |-> QuotaUser,
                  prompt |-> "prompt", content |-> "content",
                  type |-> f[i].type,
                  publish |-> f[i].publish, likes |-> <<>>]] :
              f \in [1..n -> RowKinds] } :
            n \in 0..MaxRows }

\* the owner of the rows has no premium plan, the other user may have one
InitLike ==
    /\ premium \in {[u \in Users |-> u # QuotaUser /\ p] : p \in BOOLEAN}
    /\ free_usage \in [Users -> {Undef, Val(FreeLimit)}]
    /\ creations \in LikeTables
    /\ req = [r \in Reqs |-> IdleReq]
    /\ metered = [u \in Users |-> NoMetered]

\* the row asked for exists, or is the first one that does not
ArriveLike(r) ==
    \E u \in Users, id \in 1..(Len(creations) + 1) :
        ArriveToggle(r, u, id, 0)

NextLike ==
    \/ \E r \in SeqReqs : ArriveLike(r)
    \/ \E r \in SeqReqs : auth_has(r)
    \/ \E r \in SeqReqs : auth_getUser(r)
    \/ \E r \in SeqReqs : auth_updateUserMetadata(r)
    \/ \E r \in SeqReqs : toggleLikeCreation(r)
    \/ \E r \in SeqReqs : toggleLike_update(r)

SpecLike == InitLike /\ [][NextLike]_vars

----------------------------------------------------------------------------
(* SpecRace: toggle-like requests in both slots at once, their awaited      *)
(* steps interleaved; every user has a counter auth keeps, so the           *)
(* middleware writes nothing and only the likes change; the rows are the    *)
(* published ones, those the community feed offers for liking               *)

\* the tables of LikeTables whose rows are all published
FeedTables == {t \in LikeTables : \A i \in 1..Len(t) : t[i].publish}

InitRace ==
    /\ premium = [u \in Users |-> FALSE]
    /\ free_usage = [u \in Users |-> Val(1)]
    /\ creations \in FeedTables
    /\ req = [r \in Reqs |-> IdleReq]
    /\ metered = [u \in Users |-> NoMetered]

\* the requests the two slots have taken so far
Served == req[1].nth + req[2].nth

\* at most MaxCalls requests arrive, each slot numbering its own from 1
ArriveRace(r) ==
    /\ Served < MaxCalls
    /\ \E u \in Users, id \in 1..(Len(creations) + 1) :
          ArriveToggle(r, u, id, req[r].nth + 1)

NextRace ==
    \/ \E r \in Reqs : ArriveRace(r)
    \/ \E r \in Reqs : auth_has(r)
    \/ \E r \in Reqs : auth_getUser(r)
    \/ \E r \in Reqs : toggleLikeCreation(r)
    \/ \E r \in Reqs : toggleLike_update(r)

SpecRace == InitRace /\ [][NextRace]_vars

----------------------------------------------------------------------------
(* SpecMeter: metered generation requests of one user on the free plan in   *)
(* both slots at once, the awaited steps of auth and of the controllers     *)
(* interleaved                                                              *)

\* a generation request reaches auth, numbered nth by the scenario
ArriveCounted(r, u, op, publish, size, nth) ==
    /\ req[r].pc \in {"idle", "done"}
    /\ req' = [req EXCEPT ![r] =
                  [IdleReq EXCEPT !.pc = "auth", !.userId = u, !.op = op,
                                  !.publish = publish, !.size = size,
                                  !.usage0 = free_usage[u],
                                  !.creations0 = creations,
                                  !.prior = metered[u].n,
                                  !.nth = nth]]
    /\ UNCHANGED <<premium, free_usage, creations, metered>>

\* the stored counters the metered controllers can leave behind, or none yet
InitMeter ==
    /\ premium = [u \in Users |-> FALSE]
    /\ free_usage \in {[u \in Users |-> IF u = QuotaUser THEN m ELSE Undef] :
                          m \in {Undef} \cup {Val(n) : n \in 0..MaxUsage}}
    /\ creations = <<>>
    /\ req = [r \in Reqs |-> IdleReq]
    /\ metered = [u \in Users |-> NoMetered]

\* at most MaxCalls requests arrive, each slot numbering its own from 1
ArriveMeter(r) ==
    /\ Served < MaxCalls
    /\ \E op \in {"generateArticle", "resumeReview"} :
          ArriveCounted(r, QuotaUser, op, "undefined", ResumeSizeLimit,
                        req[r].nth + 1)

NextMeter ==
    \/ \E r \in Reqs : ArriveMeter(r)
    \/ \E r \in Reqs : auth_has(r)
    \/ \E r \in Reqs : auth_getUser(r)
    \/ \E r \in Reqs : auth_updateUserMetadata(r)
    \/ \E r \in Reqs : generateArticle(r)
    \/ \E r \in Reqs : resumeReview(r)
    \/ \E r \in Reqs : Invoke(r)
    \/ \E r \in Reqs : Insert(r)
    \/ \E r \in Reqs : Commit(r)

SpecMeter == InitMeter /\ [][NextMeter]_vars

----------------------------------------------------------------------------
(* SpecLedger: generations, toggle-likes and listings one after another on  *)
(* a table that starts empty; users on either plan, each with a stored      *)
(* counter                                                                  *)

InitLedger ==
    /\ premium \in [Users -> BOOLEAN]
    /\ free_usage = [u \in Users |-> Val(1)]
    /\ creations = <<>>
    /\ req = [r \in Reqs |-> IdleReq]
    /\ metered = [u \in Users |-> NoMetered]

\* an article or an image is asked for while the table has fewer than MaxRows rows
ArriveLedgerGen(r) ==
    /\ Len(creations) < MaxRows
    /\ \E u \in Users, op \in {"generateArticle", "generateImage"} :
          \E publish \in (IF op = "generateImage" THEN Publishes ELSE {"undefined"}) :
               Arrive(r, u, op, publish, 0)

\* one user toggles a like on a row, or on the first missing one
ArriveLedgerLike(r) ==
    \E id \in 1..(Len(creations) + 1) :
        ArriveToggle(r, QuotaUser, id, 0)

\* a user asks for a listing
ArriveList(r) ==
    \E u \in Users, op \in {"getUserCreations", "getPublishedCreations"} :
        Arrive(r, u, op, "undefined", 0)

NextLedger ==
    \/ \E r \in SeqReqs : ArriveLedgerGen(r)
    \/ \E r \in SeqReqs : ArriveLedgerLike(r)
    \/ \E r \in SeqReqs : ArriveList(r)
    \/ \E r \in SeqReqs : auth_has(r)
    \/ \E r \in SeqReqs : auth_getUser(r)
    \/ \E r \in SeqReqs : auth_updateUserMetadata(r)
    \/ \E r \in SeqReqs : generateArticle(r)
    \/ \E r \in SeqReqs : generateImage(r)
    \/ \E r \in SeqReqs : Invoke(r)
    \/ \E r \in SeqReqs : Insert(r)
    \/ \E r \in SeqReqs : Commit(r)
    \/ \E r \in SeqReqs : toggleLikeCreation(r)
    \/ \E r \in SeqReqs : toggleLike_update(r)
    \/ \E r \in SeqReqs : getUserCreations(r)
    \/ \E r \in SeqReqs : getPublishedCreations(r)

SpecLedger == InitLedger /\ [][NextLedger]_vars

----------------------------------------------------------------------------
(* SpecCosts: one fresh user on the free plan issues articles (cost 1) and  *)
(* resume reviews (cost 3) one after another                                *)

ArriveCosts(r) ==
    /\ Len(creations) < MaxGenerations
    /\ \E op \in {"generateArticle", "resumeReview"} :
          Arrive(r, QuotaUser, op, "undefined", ResumeSizeLimit)

NextCosts ==
    \/ \E r \in SeqReqs : ArriveCosts(r)
    \/ \E r \in SeqReqs : auth_has(r)
    \/ \E r \in SeqReqs : auth_getUser(r)
    \/ \E r \in SeqReqs : auth_updateUserMetadata(r)
    \/ \E r \in SeqReqs : generateArticle(r)
    \/ \E r \in SeqReqs : resumeReview(r)
    \/ \E r \in SeqReqs : Invoke(r)
    \/ \E r \in SeqReqs : Insert(r)
    \/ \E r \in SeqReqs : Commit(r)

SpecCosts == InitQuota /\ [][NextCosts]_vars

----------------------------------------------------------------------------
(* SpecFresh: a fresh user on the free plan reviews resumes in one slot and *)
(* generates articles in the other, the steps of the two interleaved; every *)
(* stored counter is one the code has written                               *)

\* at most MaxMeterCalls requests arrive, each slot numbering its own from 1
ArriveFresh(r) ==
    /\ Served < MaxMeterCalls
    /\ \E op \in (IF r = 1 THEN {"resumeReview"} ELSE {"generateArticle"}) :
          ArriveCounted(r, QuotaUser, op, "undefined", ResumeSizeLimit,
                        req[r].nth + 1)

NextFresh ==
    \/ \E r \in Reqs : ArriveFresh(r)
    \/ \E r \in Reqs : auth_has(r)
    \/ \E r \in Reqs : auth_getUser(r)
    \/ \E r \in Reqs : auth_updateUserMetadata(r)
    \/ \E r \in Reqs : generateArticle(r)
    \/ \E r \in Reqs : resumeReview(r)
    \/ \E r \in Reqs : Invoke(r)
    \/ \E r \in Reqs : Insert(r)
    \/ \E r \in Reqs : Commit(r)

SpecFresh == InitQuota /\ [][NextFresh]_vars

----------------------------------------------------------------------------
(* SpecLive: a fresh user on the free plan sends article generations to    *)
(* slot 1 and toggle-likes to slot 2; every awaited call of a request in    *)
(* flight eventually returns or throws                                      *)

\* at most MaxCalls requests arrive, each slot numbering its own from 1
ArriveLive(r) ==
    /\ Served < MaxCalls
    /\ \/ /\ r = 1
          /\ ArriveCounted(r, QuotaUser, "generateArticle", "undefined", 0,
                           req[r].nth + 1)
       \/ /\ r = 2
          /\ \E id \in 1..(Len(creations) + 1) :
                ArriveToggle(r, QuotaUser, id, req[r].nth + 1)

\* the next step of the request in slot r: the awaited call it is suspended
\* on settles and the code after it runs
StepLive(r) ==
    \/ auth_has(r)
    \/ auth_getUser(r)
    \/ auth_updateUserMetadata(r)
    \/ generateArticle(r)
    \/ Invoke(r)
    \/ Insert(r)
    \/ Commit(r)
    \/ toggleLikeCreation(r)
    \/ toggleLike_update(r)

NextLive ==
    \/ \E r \in Reqs : ArriveLive(r)
    \/ \E r \in Reqs : StepLive(r)

SpecLive ==
    /\ InitQuota
    /\ [][NextLive]_vars
    /\ \A r \in Reqs : WF_vars(StepLive(r))

----------------------------------------------------------------------------
(* The claims *)

ProviderNames ==
    {"AI.chat.completions.create", "axios.post", "cloudinary.uploader.upload", "pdf"}

\* C1: a request resolved as non-premium on a metered controller (article, blog
\* title, resume review) passes the gate iff its resolved free_usage is below 10,
\* whatever the controller's cost; at 10 or more it is answered with a refusal
\* and no provider call is made.
C1_MeteredGate ==
    \A r \in Reqs :
        LET q == req[r] IN
        (q.op \in MeteredOps /\ q.plan = "free" /\ q.gate # "none") =>
            /\ (q.gate = "allow") <=> (q.free_usage < 10)
            /\ q.free_usage >= 10 =>
                  /\ q.gate = "deny"
                  /\ q.pc = "done"
                  /\ ~q.response.success
                  /\ q.calls = 0
                  /\ ~q.inserted

C1_Witness ==
    \E r \in Reqs :
        /\ req[r].op = "resumeReview"
        /\ req[r].plan = "free"
        /\ req[r].free_usage = 10
        /\ req[r].gate = "deny"
        /\ req[r].pc = "done"

\* C2: a request resolved as premium is never refused by the gate of any of the
\* six controllers, whatever free_usage was stored for the user.
C2_PremiumNeverDenied ==
    \A r \in Reqs :
        LET q == req[r] IN
        q.plan = "premium" =>
            /\ q.gate # "deny"
            /\ q.pc \in {"invoke", "insert", "commit", "done"} => q.gate = "allow"
            /\ q.response.text \notin {LimitMsg, PremiumMsg}

C2_Witness ==
    \E r \in Reqs :
        /\ req[r].plan = "premium"
        /\ req[r].op = "generateImage"
        /\ req[r].usage0 # Undef
        /\ req[r].usage0[1] >= 10
        /\ req[r].gate = "allow"

\* C3: on the premium-only controllers (generateImage, removeImageBackground,
\* removeImageObject) a request resolved as non-premium is refused with the
\* premium-only message whatever its free_usage; it makes no provider call and
\* inserts no creation.
C3_PremiumOnly ==
    \A r \in Reqs :
        LET q == req[r] IN
        (q.op \in PremiumOps /\ q.plan = "free") =>
            /\ q.calls = 0
            /\ ~q.inserted
            /\ creations = q.creations0
            /\ q.gate # "none" =>
                  /\ q.gate = "deny"
                  /\ q.pc = "done"
                  /\ q.response =
                       [success |-> FALSE, field |-> "message", text |-> PremiumMsg]

C3_Witness ==
    \E r \in Reqs :
        /\ req[r].op = "removeImageObject"
        /\ req[r].plan = "free"
        /\ req[r].free_usage = 0
        /\ req[r].gate = "deny"
        /\ req[r].pc = "done"

\* C4 as claimed: after nine successful cost-1 generations of a fresh free user,
\* issued one after another, the gate refuses the next one with the limit message.
C4_TenthDenied ==
    \A r \in Reqs :
        LET q == req[r] IN
        (q.prior = 9 /\ q.gate # "none") =>
            /\ q.gate = "deny"
            /\ q.response.text = LimitMsg

\* C4 as amended: a fresh free user issuing cost-1 generations one after another
\* passes the gate as long as fewer than ten have succeeded, every success
\* advances the stored free_usage by exactly 1, and after ten successes the next
\* request (the eleventh) is refused with the limit message.
C4_TenFreeGenerations ==
    \A r \in Reqs :
        LET q == req[r] IN
        q.gate # "none" =>
            /\ q.free_usage = q.prior
            /\ q.prior < 10 => q.gate = "allow"
            /\ q.prior >= 10 =>
                  /\ q.prior = 10
                  /\ q.gate = "deny"
                  /\ q.response =
                       [success |-> FALSE, field |-> "message", text |-> LimitMsg]
            /\ (q.pc = "done" /\ q.response.success) =>
                  /\ free_usage[q.userId] = Val(q.prior + 1)
                  /\ metered[q.userId].n = q.prior + 1

C4_Witness ==
    \E r \in Reqs :
        /\ req[r].prior = 10
        /\ req[r].gate = "deny"
        /\ req[r].pc = "done"
        /\ free_usage[req[r].userId] = Val(10)
        /\ Len(creations) = 10

\* C5: when a provider call of a controller throws (AI completion, image API,
\* PDF parsing or asset upload), the request inserts no creation, the controller
\* writes no free_usage, and the answer has success = false.
C5_ProviderFailure ==
    \A r \in Reqs :
        LET q == req[r] IN
        q.thrown \in ProviderNames =>
            /\ q.pc = "done"
            /\ ~q.response.success
            /\ ~q.inserted
            /\ creations = q.creations0
            /\ q.ctrlWrote = Undef
            /\ free_usage[q.userId] = q.usage1

C5_Witness ==
    \E r \in Reqs :
        /\ req[r].op = "generateImage"
        /\ req[r].thrown = "cloudinary.uploader.upload"
        /\ req[r].calls = 2
        /\ req[r].pc = "done"

\* C6: the controller's usage write happens only on a metered controller for a
\* request resolved as non-premium, only after every provider call and the
\* INSERT of that request succeeded, and it writes the free_usage resolved by
\* auth plus 1 (article, blog title) or plus 3 (resume review).
C6_CommitAfterSuccess ==
    \A r \in Reqs :
        LET q == req[r] IN
        /\ q.pc = "commit" => (q.inserted /\ q.thrown = "none")
        /\ (q.op \in MeteredOps /\ q.plan = "free" /\ q.response.success) =>
              q.ctrlWrote # Undef
        /\ q.ctrlWrote # Undef =>
              /\ q.op \in MeteredOps
              /\ q.plan = "free"
              /\ q.inserted
              /\ q.calls >= 1
              /\ q.thrown = "none"
              /\ Len(creations) = Len(q.creations0) + 1
              /\ creations[Len(creations)].user_id = q.userId
              /\ q.ctrlWrote =
                   Val(q.free_usage + (IF q.op = "resumeReview" THEN 3 ELSE 1))
              /\ free_usage[q.userId] = q.ctrlWrote

C6_Witness ==
    \E r \in Reqs :
        /\ req[r].op = "resumeReview"
        /\ req[r].free_usage = 9
        /\ req[r].ctrlWrote = Val(12)
        /\ free_usage[req[r].userId] = Val(12)

\* C7: a request resolved as premium makes no usage write in its controller:
\* after a successful premium generation the stored free_usage is what it was
\* when the controller started.
C7_PremiumNoCommit ==
    \A r \in Reqs :
        LET q == req[r] IN
        q.plan = "premium" =>
            /\ q.ctrlWrote = Undef
            /\ q.pc # "commit"
            /\ q.pc \in {"controller", "invoke", "insert", "done"} =>
                  free_usage[q.userId] = q.usage1

C7_Witness ==
    \E r \in Reqs :
        /\ req[r].plan = "premium"
        /\ req[r].op \in MeteredOps
        /\ req[r].pc = "done"
        /\ req[r].response.success
        /\ req[r].inserted

\* C8 as claimed: auth does not write free_usage for a premium user, whose stored
\* counter is the same after the request as before it.
C8_PremiumSkipsNormalization ==
    \A r \in Reqs :
        LET q == req[r] IN
        q.plan = "premium" =>
            /\ ~q.authWrote
            /\ free_usage[q.userId] = q.usage0

\* C8 as amended: for a premium user auth does not skip the write: it sets the
\* stored free_usage to 0 and passes 0 on, so a counter accumulated before the
\* upgrade (7, say) is 0 once auth has run.
C8_PremiumResetsUsage ==
    \A r \in Reqs :
        LET q == req[r] IN
        q.plan = "premium" =>
            /\ q.authWrote
            /\ q.free_usage = 0
            /\ q.usage1 = Val(0)
            /\ free_usage[q.userId] = Val(0)

C8_Witness ==
    \E r \in Reqs :
        /\ req[r].plan = "premium"
        /\ req[r].usage0 = Val(7)
        /\ req[r].authWrote
        /\ free_usage[req[r].userId] = Val(0)
        /\ req[r].pc = "done"

\* C9: for a non-premium user with no stored free_usage auth writes 0 before the
\* controller starts and passes 0 to the gate; for a non-premium user with a
\* stored positive n it passes n and writes nothing.
C9_Normalization ==
    \A r \in Reqs :
        LET q == req[r] IN
        q.plan = "free" =>
            /\ q.usage0 = Undef =>
                  /\ q.authWrote
                  /\ q.free_usage = 0
                  /\ q.usage1 = Val(0)
            /\ (q.usage0 # Undef /\ q.usage0[1] > 0) =>
                  /\ ~q.authWrote
                  /\ q.free_usage = q.usage0[1]
                  /\ q.usage1 = q.usage0

C9_Witness ==
    \E r \in Reqs :
        /\ req[r].plan = "free"
        /\ req[r].usage0 = Undef
        /\ req[r].authWrote
        /\ req[r].free_usage = 0
        /\ req[r].gate = "allow"
        /\ req[r].op \in MeteredOps

\* C10 as claimed: a request refused by the gate leaves the creations and the
\* user's stored free_usage (its absence included) as they were when it arrived.
C10_DeniedNoSideEffect ==
    \A r \in Reqs :
        LET q == req[r] IN
        q.gate = "deny" =>
            /\ creations = q.creations0
            /\ free_usage[q.userId] = q.usage0

\* C10 as amended: a request refused by the gate inserts no creation, makes no
\* provider call and no usage write in its controller; the stored free_usage is
\* what it was when the request arrived, except that an absent value has been
\* set to 0 by auth.
C10_DeniedOnlyNormalizes ==
    \A r \in Reqs :
        LET q == req[r] IN
        q.gate = "deny" =>
            /\ q.pc = "done"
            /\ ~q.response.success
            /\ creations = q.creations0
            /\ ~q.inserted
            /\ q.calls = 0
            /\ q.ctrlWrote = Undef
            /\ free_usage[q.userId] = (IF q.usage0 = Undef THEN Val(0) ELSE q.usage0)

C10_Witness ==
    \E r \in Reqs :
        /\ req[r].gate = "deny"
        /\ req[r].op = "generateImage"
        /\ req[r].usage0 = Undef
        /\ free_usage[req[r].userId] = Val(0)
        /\ req[r].pc = "done"

\* C11 as claimed: when the controller's usage write fails after the provider
\* calls and the INSERT succeeded, the caller still gets the generated content
\* with success = true.
C11_CommitFailureNonFatal ==
    \A r \in Reqs :
        LET q == req[r] IN
        (q.inserted /\ q.thrown = "updateUserMetadata") =>
            /\ q.response.success
            /\ q.response.field = "content"

\* C12: when the INSERT fails after the provider calls succeeded, the request
\* fails as a whole: the answer has success = false and no content, and no usage
\* is written or counted for the request.
C12_InsertFailureFails ==
    \A r \in Reqs :
        LET q == req[r] IN
        q.thrown = "sql" =>
            /\ q.pc = "done"
            /\ ~q.response.success
            /\ q.response.field # "content"
            /\ ~q.inserted
            /\ q.ctrlWrote = Undef
            /\ free_usage[q.userId] = q.usage1
            /\ metered[q.userId].n = q.prior

C12_Witness ==
    \E r \in Reqs :
        /\ req[r].thrown = "sql"
        /\ req[r].op = "generateArticle"
        /\ req[r].plan = "free"
        /\ req[r].calls = 1
        /\ req[r].pc = "done"

\* C13 as claimed: when the INSERT fails after a successful generation the
\* generated result is still returned to the caller.
C13_InsertFailureReturnsResult ==
    \A r \in Reqs :
        LET q == req[r] IN
        q.thrown = "sql" =>
            /\ q.response.success
            /\ q.response.field = "content"

\* C13 as amended: when the INSERT fails after a successful generation the
\* result is not returned (the answer is success = false with the error's
\* message), and the generation is not retried: every provider call of the
\* controller was made exactly once.
C13_InsertFailureNotRetried ==
    \A r \in Reqs :
        LET q == req[r] IN
        q.thrown = "sql" =>
            /\ q.pc = "done"
            /\ q.response = [success |-> FALSE, field |-> "message", text |-> "sql"]
            /\ q.calls = Len(ProviderCalls(q.op))
            /\ q.step = q.calls
            /\ creations = q.creations0

C13_Witness ==
    \E r \in Reqs :
        /\ req[r].thrown = "sql"
        /\ req[r].op = "resumeReview"
        /\ req[r].calls = 2
        /\ req[r].pc = "done"

\* C14 as claimed: a refusal for an exhausted free quota (article, blog title,
\* resume review) carries the limit message and never the premium-only one; a
\* refusal on a premium-only controller carries the premium-only message.
C14_DenialReasons ==
    \A r \in Reqs :
        LET q == req[r] IN
        q.gate = "deny" =>
            /\ q.op \in MeteredOps => q.response.text = LimitMsg
            /\ q.op \in PremiumOps => q.response.text = PremiumMsg

\* C15 as claimed: every failure reaches the caller as {success: false, message}.
C15_UniformFailureShape ==
    \A r \in Reqs :
        LET q == req[r] IN
        (q.pc = "done" /\ ~q.response.success) => q.response.field = "message"

\* C16: when auth throws (credential check, plan check, metadata read or its
\* own metadata write), the request is answered by auth: no controller runs, no
\* gate is evaluated, no provider call is made, the creations are untouched and
\* free_usage is not written.
C16_AuthFailureRejects ==
    \A r \in Reqs :
        LET q == req[r] IN
        (q.thrown # "none" /\ q.plan = "none") =>
            /\ q.thrown \in {"req.auth", "getUser", "updateUserMetadata"}
            /\ q.pc = "done"
            /\ ~q.response.success
            /\ q.gate = "none"
            /\ q.calls = 0
            /\ ~q.inserted
            /\ ~q.authWrote
            /\ q.ctrlWrote = Undef
            /\ creations = q.creations0
            /\ free_usage[q.userId] = q.usage0

C16_Witness ==
    \E r \in Reqs :
        /\ req[r].thrown = "updateUserMetadata"
        /\ req[r].plan = "none"
        /\ req[r].op = "generateArticle"
        /\ req[r].pc = "done"


\* the set of users in a likes array
Members(likes) == {likes[i] : i \in 1..Len(likes)}

\* C18: a toggle-like that runs without interleaving and succeeds removes the
\* caller from the row's likes and answers "Creation disliked" when the caller
\* was a member, adds the caller and answers "Creation liked" otherwise, and
\* leaves every other user's membership as it was.
C18_ToggleFlipsCaller ==
    \A r \in SeqReqs : LET q == req[r] IN
    (q.pc = "done" /\ q.op = "toggleLikeCreation" /\ q.response.success) =>
        LET now == creations[q.id].likes IN
        /\ Includes(q.likes0, q.userId) =>
              (~Includes(now, q.userId) /\ q.response.text = DislikedMsg)
        /\ ~Includes(q.likes0, q.userId) =>
              (Includes(now, q.userId) /\ q.response.text = LikedMsg)
        /\ \A v \in Users \ {q.userId} :
              Includes(now, v) <=> Includes(q.likes0, v)

\* a member has unliked a row that somebody else likes too
C18_Witness ==
    \E r \in SeqReqs : LET q == req[r] IN
        /\ q.pc = "done" /\ q.op = "toggleLikeCreation" /\ q.response.success
        /\ q.response.text = DislikedMsg
        /\ Includes(q.likes0, q.userId)
        /\ Members(creations[q.id].likes) = Users \ {q.userId}

\* C19: two successful toggles of the same row by the same user, the second
\* immediately after the first, leave the row's likes equal as a set to what
\* they were before the first, and the two answers are opposite.
C19_ToggleInvolution ==
    \A r \in SeqReqs : LET q == req[r] IN
    (/\ q.pc = "done" /\ q.op = "toggleLikeCreation" /\ q.response.success
     /\ q.prev.valid) =>
        /\ Members(creations[q.id].likes) = Members(q.prev.likes0)
        /\ q.response.text # q.prev.text
        /\ {q.response.text, q.prev.text} = {LikedMsg, DislikedMsg}

\* unlike then like again: the same set, the caller now last in the array
C19_Witness ==
    \E r \in SeqReqs : LET q == req[r] IN
        /\ q.pc = "done" /\ q.op = "toggleLikeCreation" /\ q.response.success
        /\ q.prev.valid
        /\ q.prev.text = DislikedMsg
        /\ Len(q.prev.likes0) = 2
        /\ creations[q.id].likes # q.prev.likes0


\* C17: two concurrent toggle-likes of one row by different users, neither of
\* them in the row's likes when either call arrived, both succeed, and once
\* both have completed both users are in the row's likes.
C17_NoLostLike ==
    LET a == req[1]
        b == req[2] IN
    (/\ a.op = "toggleLikeCreation" /\ b.op = "toggleLikeCreation"
     /\ a.nth = 1 /\ b.nth = 1
     /\ a.id = b.id /\ a.userId # b.userId
     /\ Found(a.id)
     /\ Members(a.likes0) \cap {a.userId, b.userId} = {}
     /\ Members(b.likes0) \cap {a.userId, b.userId} = {}
     /\ a.pc = "done" /\ b.pc = "done"
     /\ a.thrown = "none" /\ b.thrown = "none") =>
        /\ a.response.success /\ b.response.success
        /\ {a.userId, b.userId} \subseteq Members(creations[a.id].likes)

\* C20: in every reachable state, whatever the interleaving of the toggle-like
\* calls, no user appears twice in the likes of a row.
C20_NoDuplicateLikes ==
    \A i \in 1..Len(creations) :
        \A j, k \in 1..Len(creations[i].likes) :
            creations[i].likes[j] = creations[i].likes[k] => j = k

\* two calls of one user on one row, both having read the likes without the
\* user, have both written and answered "Creation liked"
C20_Witness ==
    LET a == req[1]
        b == req[2] IN
    /\ a.op = "toggleLikeCreation" /\ b.op = "toggleLikeCreation"
    /\ a.id = b.id /\ a.userId = b.userId
    /\ a.pc = "done" /\ b.pc = "done"
    /\ a.response.success /\ b.response.success
    /\ a.response.text = LikedMsg /\ b.response.text = LikedMsg
    /\ a.currentLikes = b.currentLikes
    /\ Len(a.currentLikes) = 1
    /\ Len(creations[a.id].likes) = 2


\* C21: a toggle-like whose id matches no row answers success = false with
\* "Creation not found" once its SELECT has returned, and writes nothing: the
\* creations table is what it was when the request arrived.
C21_NotFoundNoWrite ==
    \A r \in SeqReqs : LET q == req[r] IN
    (q.pc = "done" /\ q.op = "toggleLikeCreation" /\ ~Found(q.id)) =>
        /\ ~q.response.success
        /\ creations = q.creations0
        /\ q.currentLikes = <<>> /\ q.updatedLikes = <<>>
        /\ (q.thrown = "none") =>
              (q.response.field = "message" /\ q.response.text = NotFoundMsg)

\* a toggle of a missing row has been answered "Creation not found" on a table
\* that has rows, one of them liked
C21_Witness ==
    \E r \in SeqReqs : LET q == req[r] IN
        /\ q.pc = "done" /\ q.op = "toggleLikeCreation"
        /\ q.thrown = "none"
        /\ q.response.text = NotFoundMsg
        /\ q.id = Len(creations) + 1
        /\ \E i \in 1..Len(creations) : creations[i].likes # <<>>


\* C22: two concurrent metered requests of one user on the free plan that
\* resolve the same free_usage n < 10 are both allowed; when one has
\* succeeded and the other, which read n from the store, is about to write,
\* the store holds n plus the cost of the first; when both have succeeded the
\* store holds n plus the cost of one of them, less than n plus both costs,
\* while two metered generations have succeeded.
C22_LostCommit ==
    \A r \in Reqs : \A o \in Reqs \ {r} :
    LET a == req[r]
        b == req[o]
        n == a.free_usage IN
    (/\ a.op \in MeteredOps /\ b.op \in MeteredOps
     /\ a.userId = b.userId
     /\ a.nth = 1 /\ b.nth = 1
     /\ a.plan = "free" /\ b.plan = "free"
     /\ b.free_usage = n /\ n < FreeLimit) =>
        /\ a.gate # "deny" /\ b.gate # "deny"
        /\ (/\ a.pc = "done" /\ a.response.success
            /\ b.pc = "commit" /\ ~b.authWrote) =>
              free_usage[a.userId] = Val(n + Cost(a.op))
        /\ (/\ a.pc = "done" /\ a.response.success
            /\ b.pc = "done" /\ b.response.success) =>
              /\ free_usage[a.userId] \in {Val(n + Cost(a.op)), Val(n + Cost(b.op))}
              /\ free_usage[a.userId][1] < n + Cost(a.op) + Cost(b.op)
              /\ metered[a.userId].n = 2
              /\ metered[a.userId].cost = Cost(a.op) + Cost(b.op)

\* both requests resolved 9 and both succeeded: the user has two more metered
\* generations and the counter shows the cost of one
C22_Witness ==
    LET a == req[1]
        b == req[2] IN
    /\ a.op = "generateArticle" /\ b.op = "resumeReview"
    /\ a.nth = 1 /\ b.nth = 1
    /\ a.free_usage = FreeLimit - 1 /\ b.free_usage = FreeLimit - 1
    /\ a.pc = "done" /\ a.response.success
    /\ b.pc = "done" /\ b.response.success
    /\ free_usage[QuotaUser] = Val(FreeLimit)
    /\ metered[QuotaUser].cost = 4


\* a row without its likes
Frame(row) == [row EXCEPT !.likes = <<>>]

\* C23: no step deletes a row of the creations table or changes its id,
\* user_id, prompt, content, type or publish: rows are only appended, and
\* likes is the only field of an existing row that a step changes.
C23_OnlyLikesChange ==
    [][/\ Len(creations') >= Len(creations)
       /\ \A i \in 1..Len(creations) : Frame(creations'[i]) = Frame(creations[i])]_vars

\* a row was inserted after an earlier row had been liked, and has been liked too
C23_Witness ==
    /\ Len(creations) = 2
    /\ creations[1].likes # <<>>
    /\ creations[2].likes # <<>>
    /\ creations[1].type # creations[2].type


\* a toggle-like is never gated and its controller writes no counter: once its
\* SELECT has found the row and nothing has thrown, it succeeds
TogglePermitted ==
    \A r \in SeqReqs : LET q == req[r] IN
    q.op = "toggleLikeCreation" =>
        /\ q.gate = "none"
        /\ q.ctrlWrote = Undef
        /\ (q.pc = "done" /\ q.thrown = "none" /\ Found(q.id)) => q.response.success

\* C24 as stated: a toggle-like is permitted whatever the caller's counter, and
\* no step of a toggle-like request changes the stored free_usage of any user.
C24_ToggleNeverWritesUsage ==
    /\ []TogglePermitted
    /\ [][free_usage' = free_usage]_vars

\* C24: a toggle-like is permitted whatever the caller's counter, also for a
\* user without premium plan whose free_usage is 10 or more; its controller
\* never writes free_usage; the only change a toggle-like request makes to a
\* stored free_usage is the write of 0 by auth, to the caller's counter, when
\* the caller has a premium plan or no truthy counter.
C24_ToggleOnlyNormalizesUsage ==
    /\ []TogglePermitted
    /\ [][\A u \in Users :
            free_usage'[u] # free_usage[u] =>
               /\ free_usage'[u] = Val(0)
               /\ \E r \in SeqReqs :
                     /\ req[r].op = "toggleLikeCreation"
                     /\ req[r].userId = u
                     /\ req[r].pc = "updateUserMetadata"
                     /\ req'[r].authWrote
                     /\ (req[r].hasPremiumPlan \/ ~Truthy(free_usage[u]))]_vars

\* a user without premium plan at the limit has liked a row, after the toggle
\* of a premium user at the limit had that user's counter written to 0
C24_Witness ==
    \E r \in SeqReqs : LET q == req[r] IN
        /\ q.pc = "done" /\ q.op = "toggleLikeCreation" /\ q.response.success
        /\ q.response.text = LikedMsg
        /\ ~q.hasPremiumPlan /\ q.free_usage = FreeLimit
        /\ free_usage[q.userId] = Val(FreeLimit)
        /\ \E v \in Users \ {q.userId} :
              /\ premium[v] /\ free_usage[v] = Val(0)
              /\ Includes(creations[q.id].likes, v)


\* the type the claims give each generation capability
ClaimedType(op) ==
    CASE op = "generateArticle" -> "article"
      [] op = "generateBlogTitle" -> "blog-title"
      [] op = "resumeReview" -> "resume-review"
      [] op \in {"generateImage", "removeImageBackground", "removeImageObject"} -> "image"

\* C25: a generation request answered with success = true has appended
\* exactly one row, owned by the caller and of the type of its capability;
\* the type of every row is article, blog-title, image or resume-review; a
\* request refused by the gate or failed by a provider has appended none.
C25_OneRowPerSuccess ==
    /\ \A i \in 1..Len(creations) :
          creations[i].type \in {"article", "blog-title", "image", "resume-review"}
    /\ \A r \in SeqReqs : LET q == req[r] IN
          (q.op \in GenOps /\ q.pc = "done") =>
             /\ q.response.success =>
                   /\ Len(creations) = Len(q.creations0) + 1
                   /\ SubSeq(creations, 1, Len(q.creations0)) = q.creations0
                   /\ creations[Len(creations)].user_id = q.userId
                   /\ creations[Len(creations)].type = ClaimedType(q.op)
             /\ (~q.response.success /\ (q.gate = "deny" \/ q.thrown \in ProviderNames)) =>
                   creations = q.creations0

\* an image tool has succeeded and its row is an image of the caller
C25_Witness ==
    \E r \in SeqReqs : LET q == req[r] IN
        /\ q.op = "removeImageObject" /\ q.pc = "done" /\ q.response.success
        /\ Len(creations) = 1
        /\ creations[1].type = "image"
        /\ creations[1].user_id = q.userId


\* C26: a row is inserted with publish = true only by generateImage for a
\* request resolved as premium whose body has publish = true; with no publish
\* in the body generateImage inserts publish = false; no step changes the
\* publish of a row; so every published row has type image.
C26_PublishOnlyAtInsert ==
    /\ [](\A i \in 1..Len(creations) :
             creations[i].publish => creations[i].type = "image")
    /\ [][/\ \A i \in 1..Len(creations) : creations'[i].publish = creations[i].publish
          /\ Len(creations') > Len(creations) =>
                \E r \in SeqReqs : LET q == req[r]
                                       row == creations'[Len(creations')] IN
                   /\ q.pc = "insert" /\ req'[r].inserted
                   /\ row.publish = (q.op = "generateImage" /\ q.publish = "true")
                   /\ row.publish => q.plan = "premium"
                   /\ q.publish = "undefined" => ~row.publish]_vars

\* generateImage without publish in the body has inserted an unpublished row
\* after a published one, which has been liked since
C26_Witness ==
    \E r \in SeqReqs : LET q == req[r] IN
        /\ q.op = "generateImage" /\ q.publish = "undefined"
        /\ q.pc = "done" /\ q.response.success
        /\ Len(creations) = 2
        /\ creations[1].publish /\ creations[1].likes # <<>>
        /\ ~creations[2].publish /\ creations[2].type = "image"


\* the rows of a sequence, as a set
RowSet(rows) == {rows[i] : i \in 1..Len(rows)}

C28_LikesOnlyOnPublished ==
    \A i \in 1..Len(creations) :
        creations[i].likes # <<>> => creations[i].publish


\* C29: a step that changes the creations table is the UPDATE of one
\* toggle-like, and it changes nothing but the likes of the row with the id of
\* that request; two toggle-likes of different rows that run concurrently
\* leave each row with the likes its own toggle computed from what the row
\* held when the calls arrived.
C29_ToggleFrame ==
    /\ [][creations' # creations =>
             \E r \in Reqs :
                /\ req[r].pc = "update" /\ req'[r].pc = "done"
                /\ Len(creations') = Len(creations)
                /\ \A i \in 1..Len(creations) :
                      /\ Frame(creations'[i]) = Frame(creations[i])
                      /\ i # req[r].id => creations'[i].likes = creations[i].likes]_vars
    /\ [](LET a == req[1]
              b == req[2] IN
          (/\ a.op = "toggleLikeCreation" /\ b.op = "toggleLikeCreation"
           /\ a.nth = 1 /\ b.nth = 1
           /\ a.id # b.id
           /\ a.pc = "done" /\ a.response.success
           /\ b.pc = "done" /\ b.response.success) =>
              /\ creations[a.id].likes = ToggleLikes(a.likes0, a.userId)
              /\ creations[b.id].likes = ToggleLikes(b.likes0, b.userId))

\* two first calls on different rows have both read before either wrote, and
\* each row holds its own caller
C29_Witness ==
    LET a == req[1]
        b == req[2] IN
    /\ a.op = "toggleLikeCreation" /\ b.op = "toggleLikeCreation"
    /\ a.nth = 1 /\ b.nth = 1
    /\ a.id # b.id /\ a.userId # b.userId
    /\ a.pc = "done" /\ a.response.success
    /\ b.pc = "done" /\ b.response.success
    /\ creations[a.id].likes = <<a.userId>>
    /\ creations[b.id].likes = <<b.userId>>


\* the successful toggle-likes of user u among the calls in the two slots
SuccessfulToggles(u) ==
    Cardinality({r \in Reqs : /\ req[r].op = "toggleLikeCreation"
                              /\ req[r].userId = u
                              /\ req[r].pc = "done"
                              /\ req[r].response.success})

\* C30: when the only calls ever made are two toggle-likes of one row whose
\* likes started empty, and both have completed, a user is in the row's likes
\* iff the number of successful toggle-likes of that user is odd.
C30_LikeParity ==
    LET a == req[1]
        b == req[2] IN
    (/\ a.op = "toggleLikeCreation" /\ b.op = "toggleLikeCreation"
     /\ a.nth = 1 /\ b.nth = 1
     /\ a.id = b.id /\ Found(a.id)
     /\ a.pc = "done" /\ b.pc = "done") =>
        \A u \in Users :
            Includes(creations[a.id].likes, u) <=> (SuccessfulToggles(u) % 2 = 1)


\* C35: a resumeReview request that has passed the gate with a file of more
\* than 5 MB is answered success = false with the size message before any
\* provider call: no call is made, no row is appended and the stored
\* free_usage stays what auth left.
C35_LargeResumeRejected ==
    \A r \in SeqReqs : LET q == req[r] IN
    (/\ q.op = "resumeReview"
     /\ q.size > 5 * 1024 * 1024
     /\ q.gate = "allow") =>
        /\ q.pc = "done"
        /\ ~q.response.success
        /\ q.response.field = "message" /\ q.response.text = SizeMsg
        /\ q.calls = 0
        /\ ~q.inserted /\ creations = q.creations0
        /\ q.ctrlWrote = Undef
        /\ free_usage[q.userId] = q.usage1
        /\ metered[q.userId].n = q.prior

\* a user on the free plan below the limit has sent a resume of more than 5 MB
C35_Witness ==
    \E r \in SeqReqs : LET q == req[r] IN
        /\ q.op = "resumeReview" /\ q.size = ResumeSizeLimit + 1
        /\ q.plan = "free" /\ q.free_usage = FreeLimit - 1
        /\ q.gate = "allow"
        /\ q.pc = "done" /\ q.response.text = SizeMsg


\* C32: for a user on the free plan whose requests run one after another, at
\* most 10 metered generations succeed, and after each success the stored
\* free_usage is the sum of the costs of the user's successful metered
\* generations.
C32_SequentialMetering ==
    /\ metered[QuotaUser].n <= 10
    /\ \A r \in SeqReqs : LET q == req[r] IN
          (/\ q.op \in MeteredOps /\ q.userId = QuotaUser
           /\ q.pc = "done" /\ q.response.success) =>
              /\ free_usage[QuotaUser] = Val(metered[QuotaUser].cost)
              /\ metered[QuotaUser].n = q.prior + 1

\* a resume review has succeeded from a counter of 9: the counter is 12, the
\* sum of the costs so far
C32_Witness ==
    \E r \in SeqReqs : LET q == req[r] IN
        /\ q.op = "resumeReview" /\ q.pc = "done" /\ q.response.success
        /\ q.free_usage = FreeLimit - 1
        /\ metered[QuotaUser].cost = FreeLimit + 2
        /\ free_usage[QuotaUser] = Val(FreeLimit + 2)


\* C33: while a user has no premium plan, no step lowers the user's stored
\* free_usage, whatever the interleaving of the user's requests.
C33_UsageNeverDecreases ==
    [][\A u \in Users :
          (~premium[u] /\ free_usage[u] # Undef /\ free_usage'[u] # Undef) =>
              free_usage'[u][1] >= free_usage[u][1]]_vars


\* C31: in every reachable state, whatever the interleaving of the requests, a
\* stored free_usage written by this code is an integer from 0 to 12; it can
\* be above the limit of 10.
C31_UsageRange ==
    \A u \in Users :
        free_usage[u] # Undef =>
            /\ free_usage[u][1] \in Nat
            /\ free_usage[u][1] <= 12

\* a resume review allowed at 9 has written 12
C31_Witness ==
    /\ free_usage[QuotaUser] = Val(12)
    /\ \E r \in Reqs :
          /\ req[r].op = "resumeReview" /\ req[r].free_usage = 9
          /\ req[r].pc = "done" /\ req[r].response.success


\* the answer came from auth and the controller never ran
AnsweredByAuth(q) ==
    /\ q.plan = "none"
    /\ q.thrown \in {"req.auth", "getUser", "updateUserMetadata"}
    /\ q.response = [success |-> FALSE, field |-> "error", text |-> q.thrown]
    /\ q.gate = "none" /\ q.calls = 0 /\ ~q.inserted /\ q.ctrlWrote = Undef
    /\ q.updatedLikes = <<>> /\ q.message = ""

\* the answer came from the controller, after auth had called next()
AnsweredByController(q) ==
    /\ q.plan # "none"
    /\ q.response.field \in {"message", "content"}

\* C34: when every awaited call eventually returns or throws, every request
\* that reaches auth is eventually answered; a request is answered once, by
\* the step that ends it, and nothing of it runs afterwards; the answer is
\* either auth's, the controller never having run, or the controller's.
C34_ExactlyOneResponse ==
    /\ \A r \in Reqs : (req[r].pc = "auth") ~> (req[r].pc = "done")
    /\ [](\A r \in Reqs :
             req[r].pc = "done" =>
                (AnsweredByAuth(req[r]) \/ AnsweredByController(req[r])))
    /\ [][\A r \in Reqs :
             /\ req[r].pc = "done" => req'[r].pc \in {"done", "auth"}
             /\ (req'[r].pc = "done" /\ req[r].pc # "done") =>
                   req'[r].response # NoResponse
             /\ req'[r].response # req[r].response =>
                   \/ req'[r].pc = "done" /\ req[r].pc \notin {"done", "idle"}
                   \/ req'[r].pc = "auth" /\ req'[r].response = NoResponse]_vars

\* both slots have been answered, one by auth and one by its controller
C34_Witness ==
    /\ req[1].pc = "done" /\ req[2].pc = "done"
    /\ \E r \in Reqs : AnsweredByAuth(req[r])
    /\ \E r \in Reqs :
          /\ AnsweredByController(req[r])
          /\ req[r].op = "toggleLikeCreation" /\ req[r].response.success

====
